---------------------------- MODULE Spec2Model ----------------------------
(***************************************************************************)
(* githash: GitHashRepo (a snapshot of git's index, queried by exact path  *)
(* and by prefix) and GitHasher (a SHA-1 over the bytes of a series of     *)
(* file/tree queries and of key-sorted metadata).                          *)
(*                                                                         *)
(* Byte strings are sequences of one-character strings; Ord gives each     *)
(* character its byte value, which is what Python 2 compares str by.       *)
(***************************************************************************)
EXTENDS Integers, Sequences, FiniteSets, TLC

VARIABLES
    hasIndex,   \* GitHashRepo: whether self.index is set (githash.py:137)
    index,      \* GitHashRepo.index: the entries in index order (githash.py:137-140)
    last,       \* the last call on the repo and what it gave back
    hash,       \* GitHasher.hash: the bytes fed to the SHA-1 (githash.py:26)
    meta,       \* GitHasher.meta (githash.py:27)
    calls       \* the calls the GitHasher took, with what digest() returned

vars == <<hasIndex, index, last, hash, meta, calls>>

repoVars == <<hasIndex, index, last>>

hasherVars == <<hash, meta, calls>>

-----------------------------------------------------------------------------
(* Bounds                                                                  *)

\* most entries git writes to the index in one `git add -A`
MaxKeys == 3

\* most calls one GitHasher receives
MaxCalls == 3

-----------------------------------------------------------------------------
(* Bytes and byte strings                                                  *)

Ord ==
    ("\t" :> 9) @@ ("\n" :> 10) @@ (" " :> 32) @@ ("." :> 46) @@ ("/" :> 47)
    @@ ("0" :> 48) @@ ("1" :> 49) @@ ("2" :> 50) @@ ("3" :> 51) @@ ("4" :> 52)
    @@ ("5" :> 53) @@ ("6" :> 54) @@ ("7" :> 55)
    @@ ("a" :> 97) @@ ("b" :> 98) @@ ("c" :> 99) @@ ("d" :> 100)
    @@ ("e" :> 101) @@ ("f" :> 102) @@ ("i" :> 105) @@ ("l" :> 108)
    @@ ("o" :> 111) @@ ("r" :> 114) @@ ("t" :> 116) @@ ("x" :> 120)

\* a < b on Python 2 str: bytewise, a proper prefix sorts first
RECURSIVE StrLess(_, _)
StrLess(a, b) ==
    IF b = <<>> THEN FALSE
    ELSE IF a = <<>> THEN TRUE
    ELSE IF Head(a) = Head(b) THEN StrLess(Tail(a), Tail(b))
    ELSE Ord[Head(a)] < Ord[Head(b)]

\* s.startswith(p)
StartsWith(s, p) == Len(p) <= Len(s) /\ SubSeq(s, 1, Len(p)) = p

\* sep.join(parts)
RECURSIVE Join(_, _)
Join(sep, parts) ==
    IF parts = <<>> THEN <<>>
    ELSE IF Len(parts) = 1 THEN parts[1]
    ELSE parts[1] \o sep \o Join(sep, Tail(parts))

-----------------------------------------------------------------------------
(* The working tree as git sees it                                         *)

repo_dir == <<"/", "r">>

\* os.path.join(repo_dir, '')
repo_dir_slash ==
    IF repo_dir # <<>> /\ repo_dir[Len(repo_dir)] = "/" THEN repo_dir
    ELSE repo_dir \o <<"/">>

p_dir_txt   == <<"d", "i", "r", ".", "t", "x", "t">>
p_dir_file  == <<"d", "i", "r", "/", "f", "i", "l", "e">>
p_dir_file2 == <<"d", "i", "r", "/", "f", "i", "l", "e", "2">>
p_dirfoo_x  == <<"d", "i", "r", "f", "o", "o", "/", "x">>
p_file2     == <<"f", "i", "l", "e", "2">>
p_dir       == <<"d", "i", "r">>
p_dirfoo    == <<"d", "i", "r", "f", "o", "o">>

\* the files the working tree may hold
TreePaths == {p_dir_txt, p_dir_file, p_dir_file2, p_dirfoo_x, p_file2}

sha_hello  == <<"b", "6">>
sha_hello2 == <<"2", "3">>

\* (st_mode, blob sha) of a file: 0100644 "hello", 0100755 "hello2"
FileAttrs == {[mode |-> 33188, sha |-> sha_hello],
              [mode |-> 33261, sha |-> sha_hello2]}

\* the keys of a set of paths in the order git writes them
RECURSIVE SortedSeq(_)
SortedSeq(S) ==
    IF S = {} THEN <<>>
    ELSE LET m == CHOOSE x \in S : \A y \in S \ {x} : StrLess(x, y)
         IN  <<m>> \o SortedSeq(S \ {m})

\* what dulwich.index.read_index yields for the index file git writes for
\* the files S with the attributes a[path]
IndexOf(S, a) ==
    LET keys == SortedSeq(S)
    IN  [i \in 1..Len(keys) |->
            [path |-> keys[i], mode |-> a[keys[i]].mode, sha |-> a[keys[i]].sha]]

\* the index files update() reads: up to MaxKeys files of the working tree,
\* all written with the same mode and content
IndexFiles ==
    { IndexOf(S, [p \in S |-> a]) :
        S \in {T \in SUBSET TreePaths : Cardinality(T) <= MaxKeys},
        a \in FileAttrs }

\* index.keys()
Keys(idx) == [i \in 1..Len(idx) |-> idx[i].path]

\* index[path] (path is a key)
Entry(idx, path) == idx[CHOOSE i \in 1..Len(idx) : idx[i].path = path]


-----------------------------------------------------------------------------
(* GitHashRepo                                                             *)

\* dulwich.index.cleanup_mode: the mode git would record for st_mode
cleanup_mode(mode) ==
    LET fmt == (mode \div 4096) % 16
    IN  IF fmt = 10 THEN 40960
        ELSE IF fmt = 4 THEN 16384
        ELSE IF fmt = 14 THEN 57344
        ELSE IF (mode \div 64) % 2 = 1 THEN 33261
        ELSE 33188

\* b'%o' % n
RECURSIVE Oct(_)
Oct(n) ==
    LET digit == <<"0", "1", "2", "3", "4", "5", "6", "7">>[(n % 8) + 1]
    IN  IF n < 8 THEN <<digit>> ELSE Oct(n \div 8) \o <<digit>>

\* GitHashRepo._entry_str: "{mode} {sha} 0\t{file}"
entry_str(entry, path) ==
    Oct(cleanup_mode(entry.mode)) \o <<" ">> \o entry.sha
        \o <<" ", "0", "\t">> \o path

\* GitHashRepo._norm_path
norm_path(path) ==
    IF StartsWith(path, repo_dir_slash)
    THEN SubSeq(path, Len(repo_dir_slash) + 1, Len(path))
    ELSE path

\* bisect_right in place of bisect_left: the first key greater than x
RECURSIVE bisect_right_loop(_, _, _, _)
bisect_right_loop(keys, x, lo, hi) ==
    IF lo < hi
    THEN LET mid == (lo + hi) \div 2
         IN  IF StrLess(x, keys[mid + 1])
             THEN bisect_right_loop(keys, x, lo, mid)
             ELSE bisect_right_loop(keys, x, mid + 1, hi)
    ELSE lo

\* bisect.bisect_left(keys, x), lo and hi counted from 0
RECURSIVE bisect_loop(_, _, _, _)
bisect_loop(keys, x, lo, hi) ==
    IF lo < hi
    THEN LET mid == (lo + hi) \div 2
         IN  IF StrLess(keys[mid + 1], x)
             THEN bisect_loop(keys, x, mid + 1, hi)
             ELSE bisect_loop(keys, x, lo, mid)
    ELSE lo

bisect_left(keys, x) == bisect_loop(keys, x, 0, Len(keys))

\* the scan of GitHashRepo._sub_paths from position i (counted from 0)
RECURSIVE sub_paths_scan(_, _, _)
sub_paths_scan(keys, path, i) ==
    IF i < Len(keys) /\ StartsWith(keys[i + 1], path)
    THEN <<keys[i + 1]>> \o sub_paths_scan(keys, path, i + 1)
    ELSE <<>>

\* GitHashRepo._sub_paths, as the list of the keys it yields
sub_paths(idx, path) ==
    sub_paths_scan(Keys(idx), path, bisect_left(Keys(idx), path))

\* what a call gives back: the exception it raised ("none": it returned),
\* the path the exception carries, and the value returned
Returned(val) == [raised |-> "none", file |-> <<>>, val |-> val]

Raised(exc, file) == [raised |-> exc, file |-> file, val |-> <<>>]

\* file() looking up the path as given, not normalized
file_unnormalized(idx, f) ==
    IF \E i \in 1..Len(idx) : idx[i].path = f
    THEN Returned(entry_str(Entry(idx, f), f))
    ELSE Raised("NoSuchFileError", f)

\* GitHashRepo.file on a repo that has an index
file(idx, f) ==
    LET norm_file == norm_path(f)
    IN  IF \E i \in 1..Len(idx) : idx[i].path = norm_file
        THEN Returned(entry_str(Entry(idx, norm_file), norm_file))
        ELSE Raised("NoSuchFileError", f)

\* GitHashRepo.tree on a repo that has an index
tree(idx, prefix) ==
    LET norm_prefix == norm_path(prefix)
        paths == sub_paths(idx, norm_prefix)
        res == [i \in 1..Len(paths) |-> entry_str(Entry(idx, paths[i]), paths[i])]
    IN  IF Len(paths) = 0
        THEN Raised("NoSuchFileError", prefix)
        ELSE Returned(Join(<<"\n">>, res))

\* the ways GitHashRepo.update ends: it returns, or os.mkdir raises, or git
\* exits non-zero, or open(index_file) raises, or read_index raises after
\* yielding some entries
UpdateEnds == {"returns", "mkdir", "git", "open", "read"}

\* GitHashRepo.update with GitHashRepo._create_index: the index the repo is
\* left with, when the index file git wrote holds `new` and reading it
\* stops after k entries
update(has, idx, new, ends, k) ==
    IF ends = "mkdir" THEN [has |-> has, index |-> idx, raised |-> "OSError"]
    ELSE IF ends = "git" THEN [has |-> has, index |-> idx, raised |-> "RuntimeError"]
    ELSE IF ends = "open" THEN [has |-> TRUE, index |-> <<>>, raised |-> "IOError"]
    ELSE IF ends = "read"
    THEN [has |-> TRUE, index |-> SubSeq(new, 1, k), raised |-> "ReadError"]
    ELSE [has |-> TRUE, index |-> new, raised |-> "none"]

\* the paths file() and tree() are asked for
QueryArgs ==
    TreePaths \cup {p_dir, p_dir \o <<"/">>, p_dirfoo}
        \cup {repo_dir_slash \o q : q \in {p_dir, p_file2, p_dir_file}}

NoCall ==
    [op |-> "none", arg |-> <<>>, raised |-> "none", file |-> <<>>,
     val |-> <<>>, hadIndex |-> FALSE, before |-> <<>>, new |-> <<>>]

\* last: the last call on the repo, what it gave back and, for update, the
\* index before it and the index file it read
Call(op, arg, r) ==
    [op |-> op, arg |-> arg, raised |-> r.raised, file |-> r.file,
     val |-> r.val, hadIndex |-> FALSE, before |-> <<>>, new |-> <<>>]

Update ==
    \E new \in IndexFiles, ends \in UpdateEnds, k \in 0..MaxKeys :
        /\ ends = "read" => k < Len(new)
        /\ ends # "read" => k = 0
        /\ LET u == update(hasIndex, index, new, ends, k)
           IN  /\ hasIndex' = u.has
               /\ index' = u.index
               /\ last' = [op |-> "update", arg |-> <<>>, raised |-> u.raised,
                           file |-> <<>>, val |-> <<>>, hadIndex |-> hasIndex,
                           before |-> index,
                           new |-> IF ends \in {"mkdir", "git"} THEN <<>> ELSE new]
        /\ UNCHANGED hasherVars

File ==
    \E f \in QueryArgs :
        /\ last' = Call("file", f,
                        IF hasIndex THEN file(index, f)
                        ELSE Raised("AttributeError", <<>>))
        /\ UNCHANGED <<hasIndex, index, hasherVars>>

Tree ==
    \E prefix \in QueryArgs :
        /\ last' = Call("tree", prefix,
                        IF hasIndex THEN tree(index, prefix)
                        ELSE Raised("AttributeError", <<>>))
        /\ UNCHANGED <<hasIndex, index, hasherVars>>

EmptyMeta == [k \in {} |-> <<>>]

\* GitHashRepo(repo_dir), and no GitHasher yet
Init ==
    /\ hasIndex = FALSE
    /\ index = <<>>
    /\ last = NoCall
    /\ hash = <<>>
    /\ meta = EmptyMeta
    /\ calls = <<>>

Next == Update \/ File \/ Tree

Spec == Init /\ [][Next]_vars

-----------------------------------------------------------------------------
(* GitHasher                                                               *)

\* hashlib's update: the hash is of the bytes fed so far, in order
hash_update(stream, data) == stream \o data

\* hashlib's hexdigest, SHA-1 taken as injective: the digest names the bytes
hexdigest(stream) == <<"sha1", stream>>

\* sorted(keys)
sorted(S) == SortedSeq(S)

MetaKeys == {<<"a">>, <<"a", "b">>}

MetaValues == {<<"c">>, <<"b", "c">>}

\* the paths add_file() and add_tree() are asked for
HasherArgs == {p_dir, p_dir_file, p_file2}

\* a GitHasher: the bytes its hash was fed, and its meta dict
Hasher(stream, m) == [hash |-> stream, meta |-> m]

\* what a GitHasher method leaves and gives back
Outcome(h, exc, ret) == [h |-> h, raised |-> exc, ret |-> ret]

\* add_file that looks the file up and leaves the hash as it was
add_file_unfolded(h, idx, f) ==
    LET file_hash == file(idx, f)
    IN  Outcome(h, file_hash.raised, <<>>)

\* GitHasher.add_file
add_file(h, idx, f) ==
    LET file_hash == file(idx, f)
    IN  IF file_hash.raised # "none" THEN Outcome(h, file_hash.raised, <<>>)
        ELSE Outcome(Hasher(hash_update(h.hash, file_hash.val), h.meta), "none", <<>>)

\* GitHasher.add_tree
add_tree(h, idx, prefix) ==
    LET tree_hash == tree(idx, prefix)
    IN  IF tree_hash.raised # "none" THEN Outcome(h, tree_hash.raised, <<>>)
        ELSE Outcome(Hasher(hash_update(h.hash, tree_hash.val), h.meta), "none", <<>>)

\* add_meta that feeds the hash at once, in call order
add_meta_folded_at_once(h, key, value) ==
    Outcome(Hasher(hash_update(hash_update(h.hash, key), value), h.meta), "none", <<>>)

\* add_meta that keeps the value a key already has
add_meta_first_kept(h, key, value) ==
    Outcome(Hasher(h.hash, [k \in DOMAIN h.meta \cup {key} |->
                                IF k \in DOMAIN h.meta THEN h.meta[k] ELSE value]),
            "none", <<>>)

\* GitHasher.add_meta
add_meta(h, key, value) ==
    Outcome(Hasher(h.hash, [k \in DOMAIN h.meta \cup {key} |->
                                IF k = key THEN value ELSE h.meta[k]]),
            "none", <<>>)

\* the loop of _hash_meta feeding the values and not the keys
RECURSIVE hash_meta_loop_values_only(_, _, _)
hash_meta_loop_values_only(stream, m, ks) ==
    IF ks = <<>> THEN stream
    ELSE hash_meta_loop_values_only(hash_update(stream, m[Head(ks)]), m, Tail(ks))

\* the loop of GitHasher._hash_meta over the keys ks
RECURSIVE hash_meta_loop(_, _, _)
hash_meta_loop(stream, m, ks) ==
    IF ks = <<>> THEN stream
    ELSE hash_meta_loop(hash_update(hash_update(stream, Head(ks)), m[Head(ks)]),
                        m, Tail(ks))

\* GitHasher._hash_meta
hash_meta(h) == Hasher(hash_meta_loop(h.hash, h.meta, sorted(DOMAIN h.meta)), h.meta)

\* GitHasher.digest
digest(h) == LET g == hash_meta(h) IN Outcome(g, "none", hexdigest(g.hash))

\* a call on the GitHasher and what it returned
HCall(op, a, b, ret) == [op |-> op, a |-> a, b |-> b, ret |-> ret]

\* the hasher takes the outcome o of a call; a call that raised leaves it as
\* it was
Took(op, a, b, o) ==
    IF o.raised = "none"
    THEN /\ hash' = o.h.hash
         /\ meta' = o.h.meta
         /\ calls' = Append(calls, HCall(op, a, b, o.ret))
    ELSE UNCHANGED hasherVars

AddFile ==
    \E f \in HasherArgs :
        /\ Len(calls) < MaxCalls
        /\ Took("add_file", f, <<>>, add_file(Hasher(hash, meta), index, f))
        /\ UNCHANGED repoVars

AddTree ==
    \E prefix \in HasherArgs :
        /\ Len(calls) < MaxCalls
        /\ Took("add_tree", prefix, <<>>, add_tree(Hasher(hash, meta), index, prefix))
        /\ UNCHANGED repoVars

AddMeta ==
    \E key \in MetaKeys, value \in MetaValues :
        /\ Len(calls) < MaxCalls
        /\ Took("add_meta", key, value, add_meta(Hasher(hash, meta), key, value))
        /\ UNCHANGED repoVars

Digest ==
    /\ Len(calls) < MaxCalls
    /\ Took("digest", <<>>, <<>>, digest(Hasher(hash, meta)))
    /\ UNCHANGED repoVars

HasherPaths == {p_dir_file, p_dir_file2, p_file2}

\* the indexes a GitHasher is built on: up to MaxKeys files, each with its
\* own mode and content
HasherIndexFiles ==
    UNION { {IndexOf(S, a) : a \in [S -> FileAttrs]} :
            S \in {T \in SUBSET HasherPaths : Cardinality(T) <= MaxKeys} }

\* GitHasher(dir) or GitHasher(repo=repo) on an updated repo
HasherInit ==
    /\ hasIndex = TRUE
    /\ index \in HasherIndexFiles
    /\ last = NoCall
    /\ hash = <<>>
    /\ meta = EmptyMeta
    /\ calls = <<>>

HasherNext == AddFile \/ AddTree \/ AddMeta \/ Digest

HasherSpec == HasherInit /\ [][HasherNext]_vars

-----------------------------------------------------------------------------
(* Properties of GitHashRepo, checked under Spec                           *)

KeySet(idx) == {idx[i].path : i \in 1..Len(idx)}

\* the keys of idx that satisfy Within, in index order
RECURSIVE KeysWhere(_, _, _)
KeysWhere(keys, prefix, sepOnly) ==
    IF keys = <<>> THEN <<>>
    ELSE LET k == Head(keys)
             hit == IF sepOnly
                    THEN k = prefix \/ StartsWith(k, prefix \o <<"/">>)
                    ELSE StartsWith(k, prefix)
         IN  (IF hit THEN <<k>> ELSE <<>>) \o KeysWhere(Tail(keys), prefix, sepOnly)

\* the listing of the keys ks of idx, one entry per line
Listing(idx, ks) ==
    Join(<<"\n">>, [i \in 1..Len(ks) |-> entry_str(Entry(idx, ks[i]), ks[i])])

EndsWithSep(path) == path # <<>> /\ path[Len(path)] = "/"

\* C4: on a repo with an index, file(p) raises NoSuchFileError carrying p
\* exactly when the normalized p is not a key, tree(p) raises it carrying p
\* exactly when no key starts with the normalized p, and otherwise each
\* returns a value and raises nothing.
QueryFailsExactlyWhenAbsent ==
    /\ (last.op = "file" /\ hasIndex) =>
          IF norm_path(last.arg) \notin KeySet(index)
          THEN last.raised = "NoSuchFileError" /\ last.file = last.arg
          ELSE last.raised = "none" /\ last.val # <<>>
    /\ (last.op = "tree" /\ hasIndex) =>
          IF \A k \in KeySet(index) : ~StartsWith(k, norm_path(last.arg))
          THEN last.raised = "NoSuchFileError" /\ last.file = last.arg
          ELSE last.raised = "none" /\ last.val # <<>>

\* file('dir') on an index that holds dir/file raised NoSuchFileError
DirAsFileRaised ==
    /\ hasIndex
    /\ last.op = "file"
    /\ last.arg = p_dir
    /\ p_dir_file \in KeySet(index)
    /\ last.raised = "NoSuchFileError"

\* C5: for a directory prefix P written without a trailing separator,
\* tree(P) and tree(P + '/') return the same bytes, or both fail.
TreeIgnoresTrailingSep ==
    (/\ last.op = "tree"
     /\ hasIndex
     /\ ~EndsWithSep(last.arg)
     /\ \E k \in KeySet(index) : StartsWith(k, norm_path(last.arg) \o <<"/">>))
    => LET slashed == tree(index, last.arg \o <<"/">>)
       IN  /\ (last.raised = "none") <=> (slashed.raised = "none")
           /\ last.val = slashed.val

\* C6: tree(P) returns exactly the entries whose path is P or begins with P
\* followed by the separator, in sorted order; a sibling whose name extends P
\* is not among them.
TreeStaysWithinDirectory ==
    (/\ last.op = "tree"
     /\ hasIndex
     /\ last.raised = "none"
     /\ ~EndsWithSep(last.arg))
    => last.val = Listing(index, KeysWhere(Keys(index), norm_path(last.arg), TRUE))

\* C7: a successful update leaves exactly the index file it read; an update
\* that raises, at whatever step, leaves the index that was there before.
UpdateReplacesOnSuccessOnly ==
    last.op = "update" =>
        IF last.raised = "none"
        THEN hasIndex /\ index = last.new
        ELSE hasIndex = last.hadIndex /\ index = last.before

\* the prefixes the search is asked for: every prefix of a path of the
\* working tree, and every normalized query
Prefixes ==
    UNION {{SubSeq(q, 1, n) : n \in 0..Len(q)} : q \in TreePaths}
        \cup {norm_path(q) : q \in QueryArgs}

\* C9: on the sorted unique keys of the index, the lower-bound search and the
\* forward scan yield exactly the keys that start with P, each once, in
\* sorted order.
PrefixSearchExact ==
    hasIndex =>
        \A P \in Prefixes :
            sub_paths(index, P) = KeysWhere(Keys(index), P, FALSE)

\* tree('dir/') found a run that starts after the first key and ends
\* before the last
SearchFoundInnerRun ==
    LET P == norm_path(last.arg)
        lo == bisect_left(Keys(index), P)
        n == Len(sub_paths(index, P))
    IN  /\ hasIndex
        /\ last.op = "tree"
        /\ last.raised = "none"
        /\ lo > 0
        /\ n > 0
        /\ lo + n < Len(index)

-----------------------------------------------------------------------------
(* Properties of GitHasher, checked under HasherSpec                       *)

Fresh == Hasher(<<>>, EmptyMeta)

\* the hasher after the call c
Apply(h, idx, c) ==
    IF c.op = "add_file" THEN add_file(h, idx, c.a).h
    ELSE IF c.op = "add_tree" THEN add_tree(h, idx, c.a).h
    ELSE IF c.op = "add_meta" THEN add_meta(h, c.a, c.b).h
    ELSE digest(h).h

\* the hasher after the calls cs, in order
RECURSIVE Run(_, _, _)
Run(h, idx, cs) ==
    IF cs = <<>> THEN h ELSE Run(Apply(h, idx, Head(cs)), idx, Tail(cs))

\* what digest() returns to a new GitHasher that received the calls cs
DigestAfter(cs) == digest(Run(Fresh, index, cs)).ret

IsContribution(c) == c.op \in {"add_file", "add_tree"}

IsMeta(c) == c.op = "add_meta"

\* the bytes the call c got from the repo
Blob(c) ==
    IF c.op = "add_file" THEN file(index, c.a).val ELSE tree(index, c.a).val

\* digest() was just called, for the first time
AtFirstDigest ==
    /\ calls # <<>>
    /\ calls[Len(calls)].op = "digest"
    /\ \A i \in 1..(Len(calls) - 1) : calls[i].op # "digest"

\* the calls before the last one
Before == SubSeq(calls, 1, Len(calls) - 1)

FirstDigest == calls[Len(calls)].ret

\* cs in the order cs[f[1]], cs[f[2]], ...
Reordered(cs, f) == [i \in 1..Len(cs) |-> cs[f[i]]]

Orders(n) == {f \in [1..n -> 1..n] : \A i, j \in 1..n : i # j => f[i] # f[j]}

DistinctMetaKeys(cs) ==
    \A i, j \in 1..Len(cs) : (i # j /\ IsMeta(cs[i]) /\ IsMeta(cs[j])) => cs[i].a # cs[j].a

\* the add_file/add_tree calls among cs, as (method, argument)
Contributions(cs) ==
    LET fs == SelectSeq(cs, IsContribution)
    IN  [i \in 1..Len(fs) |-> <<fs[i].op, fs[i].a>>]

\* the bytes the add_file/add_tree calls among cs got from the repo
Blobs(cs) ==
    LET fs == SelectSeq(cs, IsContribution)
    IN  [i \in 1..Len(fs) |-> Blob(fs[i])]

\* the orders that move add_file/add_tree calls only
ContributionOrders(cs) ==
    {f \in Orders(Len(cs)) : \A i \in 1..Len(cs) : IsMeta(cs[i]) => f[i] = i}

MetaOrderIrrelevant ==
    (AtFirstDigest /\ DistinctMetaKeys(Before)) =>
        \A f \in Orders(Len(Before)) :
            SelectSeq(Reordered(Before, f), IsContribution)
                    = SelectSeq(Before, IsContribution)
                => DigestAfter(Reordered(Before, f)) = FirstDigest

\* two add_meta calls with different keys, the larger key first, then digest()
TwoKeysDigested ==
    /\ AtFirstDigest
    /\ Len(calls) = 3
    /\ IsMeta(calls[1]) /\ IsMeta(calls[2])
    /\ StrLess(calls[2].a, calls[1].a)

\* cs without the add_meta calls that a later add_meta of the same key
\* overwrites
RECURSIVE LastWrites(_)
LastWrites(cs) ==
    IF cs = <<>> THEN <<>>
    ELSE LET c == Head(cs)
             rest == Tail(cs)
             overwritten ==
                 IsMeta(c) /\ \E j \in 1..Len(rest) : IsMeta(rest[j]) /\ rest[j].a = c.a
         IN  (IF overwritten THEN <<>> ELSE <<c>>) \o LastWrites(rest)

\* C3: the first digest() equals that of a GitHasher that received, for each
\* key, only the last value given for it.
MetaLastWriteWins ==
    AtFirstDigest => FirstDigest = DigestAfter(LastWrites(Before))

\* a key was given two different values, then digest()
OverwrittenKeyDigested ==
    /\ AtFirstDigest
    /\ Len(calls) = 3
    /\ IsMeta(calls[1]) /\ IsMeta(calls[2])
    /\ calls[1].a = calls[2].a
    /\ calls[1].b # calls[2].b

\* C8: digest() called again with no add_* call in between returns the same
\* string, and the string counts the metadata once.
DigestIdempotent ==
    \A i \in 1..Len(calls) :
        calls[i].op = "digest" =>
            /\ (i > 1 /\ calls[i - 1].op = "digest") => calls[i].ret = calls[i - 1].ret
            /\ calls[i].ret =
                 hexdigest(
                   hash_meta(
                     Hasher(Run(Fresh, index,
                                SelectSeq(SubSeq(calls, 1, i), IsContribution)).hash,
                            Run(Fresh, index,
                                SelectSeq(SubSeq(calls, 1, i), IsMeta)).meta)).hash)

\* the meta dicts add_meta can build
MetaDicts == UNION {[K -> MetaValues] : K \in SUBSET MetaKeys}

\* key bytes then value bytes of each item of m, back to back, by sorted key
MetaBytes(m) ==
    LET ks == SortedSeq(DOMAIN m)
    IN  Join(<<>>, [i \in 1..Len(ks) |-> ks[i] \o m[ks[i]]])

\* what the first digest() returns for the add_file/add_tree calls made and
\* the meta dict m
FirstDigestWith(m) ==
    digest(Hasher(Run(Fresh, index, SelectSeq(Before, IsContribution)).hash, m)).ret

\* C10, amended: after the same add_file/add_tree calls, two meta dicts give
\* the same first digest exactly when their key and value bytes, folded back
\* to back in sorted key order, are the same bytes; {'a': 'bc'} and
\* {'ab': 'c'} are such a pair.
MetaDigestEqualIffSameBytes ==
    AtFirstDigest =>
        \A m \in MetaDicts :
            (FirstDigestWith(m) = FirstDigest) <=> (MetaBytes(m) = MetaBytes(meta))

\* C10 as stated: a different meta dict gives a different first digest.
MetaFoldUnambiguous ==
    AtFirstDigest =>
        \A m \in MetaDicts : m # meta => FirstDigestWith(m) # FirstDigest

\* digest() with {'a': 'bc'} returned what it returns with {'ab': 'c'}
AmbiguousDictsDigested ==
    /\ AtFirstDigest
    /\ meta = (<<"a">> :> <<"b", "c">>)
    /\ FirstDigestWith(<<"a", "b">> :> <<"c">>) = FirstDigest

=============================================================================
